---- MODULE Spec2Model ----
(***************************************************************************)
(* A model of the sorted-key index of viaacode/python-modules:             *)
(*   multithreading.py  MultiThread, @singlethreaded, @multithreaded       *)
(*   binarysearch.py    binary_search, SortedBytesFile, SortedBytesDirectory*)
(***************************************************************************)
EXTENDS Integers, Sequences, FiniteSets, TLC

VARIABLES
    api,               \* how the executor is driven: "MultiThread" (the class) or "multithreaded" (the decorator)
    processor,         \* MultiThread.processor: which callable does the work
    n_workers,         \* MultiThread.n_workers
    q,                 \* MultiThread.q: the items put and not yet taken (FIFO)
    unfinished_tasks,  \* Queue.unfinished_tasks: put() adds one, task_done() takes one
    result,            \* MultiThread.result: None, or the list of results
    threads,           \* every worker Thread started so far (they are daemons and never end)
    caller,            \* the calling thread: its position inside extend/start/run/wait
    puts,              \* history: every item put so far
    calls,             \* history: every invocation of the processor
    starts,            \* history: every start() that was accepted
    returned,          \* history: what every run() returned
    outcome,           \* history: how the last call of start()/run() ended
    bs,                \* a call of binary_search: its arguments, its locals, its position
    directory,         \* the directory of a SortedBytesDirectory: its entries, in listdir order
    suffix,            \* SortedBytesDirectory._suffix: the suffix it was configured with
    checksums,         \* the keys searched for
    searching,         \* the generator search(checksums) makes: its position, what it yielded
    table,             \* the rows build_index streams: (pid, text)
    building,          \* a call of build_index: its arguments, its position
    writes,            \* history: every file build_index wrote
    scope,             \* a `with SortedBytesFile(file) as reader:` block: its position, its file handle
    asked,             \* history: the last call of WordSearcher.search
    cache,             \* a LocalCacher: max_items, its OrderedDict, and the last operation on it
    iterator,          \* a MediaDataListIterator and the result set it pages through
    revindex           \* a call of build_reverse_index: its position, the posting files

execVars == <<api, processor, n_workers, q, unfinished_tasks, result, threads,
              caller, puts, calls, starts, returned, outcome>>
bsVars == <<bs>>
dirVars == <<directory, suffix, checksums, searching>>

buildVars == <<table, building, writes>>
lateVars == <<cache, iterator, revindex>>
moreVars == <<buildVars, scope, asked, lateVars>>

vars == <<execVars, bsVars, dirVars, moreVars>>

-----------------------------------------------------------------------------
(* Bounds of the model *)
MaxWorkers == 2     \* n_workers is drawn from 1..MaxWorkers
MaxVal == 1         \* items are drawn from 0..MaxVal
MaxPut == 2         \* at most MaxPut items are put in one behaviour
MaxStart == 2       \* at most MaxStart calls of start()/run() are accepted in one behaviour
MaxExtra == 1       \* an extra positional argument is drawn from 1..MaxExtra
MaxKey == 2         \* keys are the encodings of MaxKey + 1 integers
MaxLen == 3         \* a sequence handed to binary_search has at most MaxLen elements
MaxRecords == 2     \* a shard file holds at most MaxRecords keys
MaxFiles == 2       \* a directory holds at most MaxFiles files
MaxQuery == 2       \* at most MaxQuery keys are searched for
MaxText == 3        \* a text has at most MaxText characters
MaxRows == 2        \* the table has at most MaxRows rows
MaxRuns == 2        \* build_index is run at most MaxRuns times
MaxWord == 2        \* a word searched for has at most MaxWord characters
MaxOps == 2
MaxItems == 2         \* LocalCacher(max_items): 0..MaxItems, or None
MaxSets == 4          \* item assignments to one LocalCacher
MaxTotal == 4         \* totalNrOfResults of a result set: 0..MaxTotal
MaxBuffer == 3        \* MediaDataListIterator(buffer_size=...): 1..MaxBuffer         \* at most MaxOps operations are answered inside one scope

-----------------------------------------------------------------------------
(* Values *)
None == <<>>                       \* Python's None, for `result` and for return values
List(l) == <<l>>                   \* a list held by `result`

Vals == 0..MaxVal
Extras == {<<>>} \cup {<<e>> : e \in 1..MaxExtra}     \* run(args): no or one extra argument
Processors == {"proc", "refl", "nonzero", "strict"}

SeqsUpTo(S, n) == UNION {[1..k -> S] : k \in 0..n}
Range(s) == {s[i] : i \in DOMAIN s}
Count(s, x) == Cardinality({i \in DOMAIN s : s[i] = x})

-----------------------------------------------------------------------------
(* Keys: bytes objects, compared as Python compares bytes *)

nbytes == 4                        \* SortedBytesFile(filename, nbytes=4): the key width

\* n.to_bytes(length, 'little'), as Chunk.from_int and WordSearcher.hasher encode
ToBytes(n, length) == [i \in 1..length |-> (n \div (256 ^ (i - 1))) % 256]

\* bytes.__lt__: the first byte that differs decides, a proper prefix is smaller
Less(a, b) ==
    \E i \in 1..(Len(a) + 1) :
        /\ i <= Len(b)
        /\ \A j \in 1..(i - 1) : a[j] = b[j]
        /\ (i = Len(a) + 1 \/ a[i] < b[i])

\* the keys of the model: 0, 128, 256, ... encoded; byte order is not numeric order
Keys == {ToBytes(128 * n, nbytes) : n \in 0..MaxKey}
ShortKey == ToBytes(1, nbytes - 1)              \* a key of the wrong width
IsSorted(s) == \A i \in 1..(Len(s) - 1) : ~Less(s[i + 1], s[i])
IsStrictlySorted(s) == \A i \in 1..(Len(s) - 1) : Less(s[i], s[i + 1])

-----------------------------------------------------------------------------
(* WordSearcher.hasher(b): crc32(b.encode('ascii')).to_bytes(4, 'little') *)

\* the characters of the model and their code points; the last one is not ASCII
Code == [c \in {"a", "b", " ", "\t", "U+00E9"} |->
            CASE c = "a" -> 97 [] c = "b" -> 98 [] c = " " -> 32 [] c = "\t" -> 9
              [] c = "U+00E9" -> 233]
Ascii == {c \in DOMAIN Code : Code[c] < 128}

\* str.encode('ascii'): one byte per character, UnicodeEncodeError on any other
Encode(b) ==
    IF \E i \in DOMAIN b : b[i] \notin Ascii
    THEN [raised |-> "UnicodeEncodeError", value |-> <<>>]
    ELSE [raised |-> "no", value |-> [i \in DOMAIN b |-> Code[b[i]]]]

\* a 32-bit register is its bits, the lowest first
Bits(n, width) == [i \in 1..width |-> (n \div (2 ^ (i - 1))) % 2]
Xor(x, y) == [i \in DOMAIN x |-> (x[i] + y[i]) % 2]
ShiftRight(x) == Tail(x) \o <<0>>
Ones == [i \in 1..32 |-> 1]

\* the reflected CRC-32 polynomial 0xEDB88320, lowest byte first
Polynomial == Bits(32, 8) \o Bits(131, 8) \o Bits(184, 8) \o Bits(237, 8)

\* one bit of the division: shift right, and subtract the polynomial on a carry
crcBit(x) == IF x[1] = 1 THEN Xor(ShiftRight(x), Polynomial) ELSE ShiftRight(x)

\* one byte: it is added to the low byte, then eight bits are divided out
crcByte(x, byte) ==
    LET x0 == Xor(x, Bits(byte, 8) \o [i \in 1..24 |-> 0])
    IN crcBit(crcBit(crcBit(crcBit(crcBit(crcBit(crcBit(crcBit(x0))))))))

RECURSIVE crcBytes(_, _)
crcBytes(x, data) ==
    IF data = <<>> THEN x ELSE crcBytes(crcByte(x, Head(data)), Tail(data))

\* binascii.crc32(data): the register starts as all ones and is inverted at the end
crc32(data) == Xor(crcBytes(Ones, data), Ones)

\* int.to_bytes(4, 'little') of a register
RegisterBytes(x) ==
    [k \in 1..4 |-> x[8 * k - 7] + 2 * x[8 * k - 6] + 4 * x[8 * k - 5] + 8 * x[8 * k - 4]
                     + 16 * x[8 * k - 3] + 32 * x[8 * k - 2] + 64 * x[8 * k - 1]
                     + 128 * x[8 * k]]

\* WordSearcher.hasher
hasher(b) ==
    LET e == Encode(b)
    IN IF e.raised # "no" THEN [raised |-> e.raised, value |-> <<>>]
       ELSE [raised |-> "no", value |-> RegisterBytes(crc32(e.value))]

-----------------------------------------------------------------------------
(* binary_search(alist, item, start=None, stop=None) *)

\* __getitem__ that takes no negative index
GetItem_unwrapped(alist, i) ==
    IF i < 0 \/ i >= Len(alist)
    THEN [raised |-> "IndexError", value |-> None]
    ELSE [raised |-> "no", value |-> alist[i + 1]]

\* alist[i], for a list and for a SortedBytesFile: a negative index counts from the
\* end, an index out of range raises IndexError
GetItem(alist, i) ==
    LET j == IF i < 0 THEN Len(alist) + i ELSE i
    IN IF j < 0 \/ j >= Len(alist)
       THEN [raised |-> "IndexError", value |-> None]
       ELSE [raised |-> "no", value |-> alist[j + 1]]

\* a call as it begins; `given` keeps the bounds it was given, `reads` counts the
\* elements read
BSCall(alist, item, lo, hi) ==
    [alist |-> alist, item |-> item, pc |-> "begin", start |-> lo, stop |-> hi,
     ret |-> None, raised |-> "no", reads |-> 0, given |-> <<lo, hi>>]

\* up to the loop: an empty list and a negative start return None, the defaults
\* are the whole list
bsBegin(s) ==
    IF Len(s.alist) = 0 THEN [s EXCEPT !.pc = "done"]
    ELSE LET start == IF s.start = None THEN 0 ELSE s.start[1]
             stop == IF s.stop = None THEN Len(s.alist) - 1 ELSE s.stop[1]
         IN IF start < 0
            THEN [s EXCEPT !.pc = "done", !.start = <<start>>, !.stop = <<stop>>]
            ELSE [s EXCEPT !.pc = "loop", !.start = <<start>>, !.stop = <<stop>>]

\* found <= item
NarrowsOrEqual(found, item) == ~Less(item, found)

\* the comparison that narrows the range: found < item
Narrows(found, item) == Less(found, item)

\* a turn of the loop that narrows to [mid, stop] instead of [mid + 1, stop]
bsLoop_stuck(s) ==
    LET mid == (s.stop[1] + s.start[1]) \div 2
        found == GetItem(s.alist, mid)
    IN IF found.raised # "no"
       THEN [s EXCEPT !.pc = "raised", !.raised = found.raised, !.reads = @ + 1]
       ELSE IF Narrows(found.value, s.item)
            THEN [s EXCEPT !.start = <<mid>>, !.reads = @ + 1]
            ELSE [s EXCEPT !.stop = <<mid>>, !.reads = @ + 1]

\* one turn of `while start < stop`: mid = (stop + start) // 2; found = alist[mid];
\* if found < item: start = mid + 1, else: stop = mid
bsLoop(s) ==
    LET mid == (s.stop[1] + s.start[1]) \div 2
        found == GetItem(s.alist, mid)
    IN IF found.raised # "no"
       THEN [s EXCEPT !.pc = "raised", !.raised = found.raised, !.reads = @ + 1]
       ELSE IF Narrows(found.value, s.item)
            THEN [s EXCEPT !.start = <<mid + 1>>, !.reads = @ + 1]
            ELSE [s EXCEPT !.stop = <<mid>>, !.reads = @ + 1]

\* after the loop: if alist[start] == item: return start; return None
bsEnd(s) ==
    LET found == GetItem(s.alist, s.start[1])
    IN IF found.raised # "no"
       THEN [s EXCEPT !.pc = "raised", !.raised = found.raised, !.reads = @ + 1]
       ELSE IF found.value = s.item
            THEN [s EXCEPT !.pc = "done", !.ret = s.start, !.reads = @ + 1]
            ELSE [s EXCEPT !.pc = "done", !.reads = @ + 1]

InLoop(s) == s.pc = "loop" /\ s.start[1] < s.stop[1]
AtEnd(s) == s.pc = "loop" /\ ~(s.start[1] < s.stop[1])

\* the whole call, for the callers of binary_search
RECURSIVE bsRun(_)
bsRun(s) ==
    CASE s.pc = "begin" -> bsRun(bsBegin(s))
      [] InLoop(s)      -> bsRun(bsLoop(s))
      [] AtEnd(s)       -> bsRun(bsEnd(s))
      [] OTHER          -> s

binary_search(alist, item) == bsRun(BSCall(alist, item, None, None))

-----------------------------------------------------------------------------
(* SortedBytesFile, EmptySortedBytes, file_contains *)

\* the records a SortedBytesFile reads: record i is the nbytes bytes at i * nbytes
Records(data) ==
    [i \in 1..(Len(data) \div nbytes) |-> SubSeq(data, (i - 1) * nbytes + 1, i * nbytes)]

\* __enter__ without the test of the size
Enter_unchecked(data) ==
    IF Len(data) = 0 THEN [raised |-> "no", reader |-> "EmptySortedBytes"]
    ELSE [raised |-> "no", reader |-> "SortedBytesFile"]

\* __enter__ without the shortcut for an empty file
Enter_opening(data) ==
    IF Len(data) % nbytes # 0 THEN [raised |-> "EOFError", reader |-> "none"]
    ELSE [raised |-> "no", reader |-> "SortedBytesFile"]

\* SortedBytesFile.__enter__: a size that is no multiple of nbytes raises EOFError,
\* an empty file gives EmptySortedBytes, else the file is opened
Enter(data) ==
    IF Len(data) % nbytes # 0 THEN [raised |-> "EOFError", reader |-> "none"]
    ELSE IF Len(data) = 0 THEN [raised |-> "no", reader |-> "EmptySortedBytes"]
    ELSE [raised |-> "no", reader |-> "SortedBytesFile"]

\* `checksum in reader`: EmptySortedBytes.__contains__ is False; ASortedBytes.__contains__
\* raises KeyError on a key of another width, else binary_search(self, item) is not None
Contains(reader, data, checksum) ==
    IF reader = "EmptySortedBytes" THEN [raised |-> "no", value |-> FALSE]
    ELSE IF Len(checksum) # nbytes THEN [raised |-> "KeyError", value |-> FALSE]
    ELSE LET r == binary_search(Records(data), checksum)
         IN [raised |-> r.raised, value |-> r.raised = "no" /\ r.ret # None]

\* all(checksum in reader for checksum in checksums): stops at the first False
RECURSIVE AllIn(_, _, _)
AllIn(reader, data, keys) ==
    IF keys = <<>> THEN [raised |-> "no", value |-> TRUE]
    ELSE LET r == Contains(reader, data, Head(keys))
         IN IF r.raised # "no" \/ ~r.value THEN r ELSE AllIn(reader, data, Tail(keys))

\* file_contains(file, checksums): with SortedBytesFile(file) as reader: return all(...)
file_contains(data, keys) ==
    LET e == Enter(data)
    IN IF e.raised # "no" THEN [raised |-> e.raised, value |-> FALSE]
       ELSE AllIn(e.reader, data, keys)

-----------------------------------------------------------------------------
(* SortedBytesDirectory *)

Crc == <<".", "c", "r", "c">>              \* '.crc': the default suffix, and the one files() tests
Idx == <<".", "i", "d", "x">>              \* '.idx': another suffix
Suffixes == {Crc, Idx}
Stems == <<"a", "b", "c", "d">>            \* the entries of the directory are a.crc or a.idx, ...
FileName(k, ext) == <<Stems[k]>> \o ext

\* str.endswith
EndsWith(name, ext) ==
    /\ Len(name) >= Len(ext)
    /\ SubSeq(name, Len(name) - Len(ext) + 1, Len(name)) = ext

\* SortedBytesDirectory.files, for a directory: the entries whose name ends with
\* '.crc'; self._suffix is not looked at
files == SelectSeq([k \in DOMAIN directory |-> directory[k].name],
                   LAMBDA name : EndsWith(name, Crc))

\* SortedBytesDirectory.basename: os.path.basename(file)[:-len(self._suffix)]; the
\* names here have no directory part
basename(file) == SubSeq(file, 1, Len(file) - Len(suffix))

\* the bytes of the file of that name
DataOf(file) == (CHOOSE k \in DOMAIN directory : directory[k].name = file)

ReadFile(file) == directory[DataOf(file)].data

\* os.path.isfile(filename), in the directory of the index
isfile(filename) == \E k \in DOMAIN directory : directory[k].name = filename

-----------------------------------------------------------------------------
(* What a call of the processor does: it returns a value (None included) or raises. *)
Return(v) == [raised |-> FALSE, value |-> v]
Raise == [raised |-> TRUE, value |-> None]

(* processor(argv, thread_id=thread_id), argv being the positional arguments.
     proc     def proc(n, thread_id, *args): return n               (doctest)
     refl     def refl(args, **kwargs): return args, kwargs         (doctest)
     nonzero  returns its last argument, or None when that is 0
     strict   raises on a last argument of 0, else returns it
     lookup   def lookup(checksums_, file, *args, **kwargs):         (search_multithread)
                  if file_contains(file, checksums_): return file *)
Processor(kind, argv, thread_id) ==
    LET last == argv[Len(argv)] IN
    CASE kind = "proc"    -> Return(<<Head(argv)>>)
      [] kind = "refl"    -> Return(argv \o <<thread_id>>)
      [] kind = "nonzero" -> IF last = 0 THEN Return(None) ELSE Return(<<last>>)
      [] kind = "strict"  -> IF last = 0 THEN Raise ELSE Return(<<last>>)
      [] kind = "lookup"  -> LET r == file_contains(ReadFile(argv[2]), argv[1])
                             IN IF r.raised # "no" THEN Raise
                                ELSE IF r.value THEN Return(<<argv[2]>>) ELSE Return(None)

-----------------------------------------------------------------------------
(* MultiThread *)

\* MultiThread.running: the executor runs while result is a list
running == result # None

\* list.append(result)
ListAppend(l, v) == Append(l, v)

\* the item a put() adds; `id`, `run` and `running` tag it for the history (the run it
\* waits for, and whether the executor was running when it was put)
Item(k, v) ==
    [id |-> Len(puts) + k, val |-> v, run |-> Len(returned) + 1, running |-> running]

\* MultiThread.extend: self.append(row) for every row, append being
\* self.q.put(args): the item joins the queue and counts as unfinished
extend(alist) ==
    /\ q' = q \o [k \in 1..Len(alist) |-> Item(k, alist[k])]
    /\ unfinished_tasks' = unfinished_tasks + Len(alist)
    /\ puts' = puts \o [k \in 1..Len(alist) |-> Item(k, alist[k])]

Idle == [pc |-> "idle", op |-> "none", args |-> <<>>]

\* a thread start() creates: partial(self._worker, args, thread_id=i, kwargs)
Worker(i, args) ==
    [thread_id |-> i, args |-> args, start |-> Len(starts) + 1,
     pc |-> "get", item |-> None]

\* start() without `if self.running: raise AlreadyRunningError`
start_unchecked(op, args) ==
    /\ result' = List(<<>>)
    /\ threads' = threads \o [i \in 1..n_workers |-> Worker(i - 1, args)]
    /\ outcome' = [op |-> op, raised |-> "no", n |-> Len(starts) + 1]
    /\ starts' = Append(starts, [op |-> op, args |-> args])
    /\ caller' = IF op = "run" THEN [pc |-> "join", op |-> op, args |-> args] ELSE Idle

\* MultiThread.start; run() goes on to wait()
start(op, args) ==
    IF running
    THEN \* raise AlreadyRunningError
         /\ outcome' = [op |-> op, raised |-> "AlreadyRunningError", n |-> Len(starts)]
         /\ caller' = Idle
         /\ UNCHANGED <<result, starts, threads>>
    ELSE /\ result' = List(<<>>)
         /\ threads' = threads \o [i \in 1..n_workers |-> Worker(i - 1, args)]
         /\ outcome' = [op |-> op, raised |-> "no", n |-> Len(starts) + 1]
         /\ starts' = Append(starts, [op |-> op, args |-> args])
         /\ caller' = IF op = "run" THEN [pc |-> "join", op |-> op, args |-> args]
                                    ELSE Idle

\* the model stops accepting at MaxStart starts (a rejected start changes nothing)
MayStart == running \/ Len(starts) < MaxStart

\* t.extend(iterable), called on the class
CallExtend(alist) ==
    /\ api = "MultiThread"
    /\ caller.pc = "idle"
    /\ alist # <<>>
    /\ Len(puts) + Len(alist) <= MaxPut
    /\ extend(alist)
    /\ UNCHANGED <<api, processor, n_workers, result, threads, caller, calls, starts,
                   returned, outcome, bsVars, dirVars, moreVars>>

\* the callable @multithreaded makes: mt.extend(alist), then return mt.run(args)
CallDecorated(alist, args) ==
    /\ api = "multithreaded"
    /\ caller.pc = "idle"
    /\ Len(puts) + Len(alist) <= MaxPut
    /\ MayStart
    /\ extend(alist)
    /\ caller' = [pc |-> "run", op |-> "run", args |-> args]
    /\ UNCHANGED <<api, processor, n_workers, result, threads, calls, starts,
                   returned, outcome, bsVars, dirVars, moreVars>>

\* ... return mt.run(args): run() begins with self.start(args)
DecoratedRun ==
    /\ caller.pc = "run"
    /\ start("run", caller.args)
    /\ UNCHANGED <<api, processor, n_workers, q, unfinished_tasks, puts, calls,
                   returned, bsVars, dirVars, moreVars>>

\* t.start(args) and t.run(args), called on the class
CallStart(op, args) ==
    /\ api = "MultiThread"
    /\ caller.pc = "idle"
    /\ MayStart
    /\ start(op, args)
    /\ UNCHANGED <<api, processor, n_workers, q, unfinished_tasks, puts, calls,
                   returned, bsVars, dirVars, moreVars>>

\* t.wait(), called on the class
CallWait ==
    /\ api = "MultiThread"
    /\ caller.pc = "idle"
    /\ caller' = [pc |-> "join", op |-> "wait", args |-> <<>>]
    /\ UNCHANGED <<api, processor, n_workers, q, unfinished_tasks, result, threads,
                   puts, calls, starts, returned, outcome, bsVars, dirVars, moreVars>>

\* join() returning with one task still unfinished
JoinReady_early == unfinished_tasks <= 1

\* Queue.join() returns once no task is unfinished
JoinReady == unfinished_tasks = 0

\* wait(): self.q.join(). run() then hands back the list and puts None in its place:
\* result = self.result; self.result = None; return result
Join ==
    /\ caller.pc = "join"
    /\ JoinReady
    /\ caller' = Idle
    /\ IF caller.op = "run"
       THEN returned' = Append(returned, result[1]) /\ result' = None
       ELSE UNCHANGED <<returned, result>>
    /\ UNCHANGED <<api, processor, n_workers, q, unfinished_tasks, threads, puts,
                   calls, starts, outcome, bsVars, dirVars, moreVars>>

-----------------------------------------------------------------------------
(* MultiThread._worker, the loop every worker thread runs forever *)

\* args = self.q.get(): blocks while the queue is empty
Get(t) ==
    /\ threads[t].pc = "get"
    /\ q # <<>>
    /\ threads' = [threads EXCEPT ![t].pc = "call", ![t].item = Head(q)]
    /\ q' = Tail(q)
    /\ UNCHANGED <<api, processor, n_workers, unfinished_tasks, result, caller, puts,
                   calls, starts, returned, outcome, bsVars, dirVars, moreVars>>

\* the item's arguments before the extra arguments
Argv_itemfirst(args, item) == <<item>> \o args

\* the positional arguments of a call: partial(self.processor, args)(item)
Argv(args, item) == args \o <<item>>

\* what the history keeps of a call of the processor
CallRecord(w, r) ==
    [id |-> w.item.id, run |-> w.item.run, thread_id |-> w.thread_id, start |-> w.start,
     args |-> w.args, want |-> caller.args, res |-> r,
     nth |-> 1 + Cardinality({c \in calls : c.id = w.item.id}),
     running |-> running]

\* result = processor(args); if result is not None: self.result.append(result);
\* self.q.task_done(). An Exception is logged and the loop goes on: one raised by the
\* processor, or the AttributeError of None.append, and then task_done() is not reached.
Call(t) ==
    /\ threads[t].pc = "call"
    /\ LET w == threads[t]
           r == Processor(processor, Argv(w.args, w.item.val), w.thread_id)
       IN /\ calls' = calls \cup {CallRecord(w, r)}
          /\ IF r.raised \/ (r.value # None /\ ~running)
             THEN UNCHANGED <<result, unfinished_tasks>>
             ELSE /\ result' = IF r.value # None
                               THEN List(ListAppend(result[1], r.value))
                               ELSE result
                  /\ unfinished_tasks' = unfinished_tasks - 1
    /\ threads' = [threads EXCEPT ![t].pc = "get", ![t].item = None]
    /\ UNCHANGED <<api, processor, n_workers, q, caller, puts, starts, returned,
                   outcome, bsVars, dirVars, moreVars>>

-----------------------------------------------------------------------------
(* @singlethreaded: the callable it makes runs func on every row in turn, on the
   caller's thread, with thread_id = 0; an exception of func ends the call *)
singlethreaded(kind, alist, args) ==
    LET res == [k \in DOMAIN alist |-> Processor(kind, Argv(args, alist[k]), 0)]
    IN IF \E k \in DOMAIN res : res[k].raised
       THEN Raise
       ELSE Return([k \in DOMAIN SelectSeq(res, LAMBDA r : r.value # None) |->
                       SelectSeq(res, LAMBDA r : r.value # None)[k].value])

-----------------------------------------------------------------------------
(* binary_search, step by step *)

BSBegin ==
    /\ bs.pc = "begin"
    /\ bs' = bsBegin(bs)
    /\ UNCHANGED <<execVars, dirVars, moreVars>>

BSLoop ==
    /\ InLoop(bs)
    /\ bs' = bsLoop(bs)
    /\ UNCHANGED <<execVars, dirVars, moreVars>>

BSEnd ==
    /\ AtEnd(bs)
    /\ bs' = bsEnd(bs)
    /\ UNCHANGED <<execVars, dirVars, moreVars>>

-----------------------------------------------------------------------------
(* SortedBytesDirectory.search and search_multithread *)

\* search(checksums) is called: files = list(self.files())
CallSearch ==
    /\ searching.pc = "idle"
    /\ searching' = [searching EXCEPT !.pc = "run"]
    /\ UNCHANGED <<execVars, bsVars, directory, suffix, checksums, moreVars>>

\* one turn of `for file in files: if file_contains(file, checksums): yield file`;
\* an exception of file_contains ends the generator
SearchStep ==
    /\ searching.pc = "run"
    /\ IF searching.i = Len(files)
       THEN searching' = [searching EXCEPT !.pc = "done"]
       ELSE LET file == files[searching.i + 1]
                r == file_contains(ReadFile(file), checksums)
            IN searching' =
                 IF r.raised # "no"
                 THEN [searching EXCEPT !.pc = "raised", !.raised = r.raised]
                 ELSE [searching EXCEPT !.i = @ + 1,
                          !.yielded = IF r.value THEN Append(@, file) ELSE @]
    /\ UNCHANGED <<execVars, bsVars, directory, suffix, checksums, moreVars>>

\* search_multithread(checksums, threads): a new MultiThread of `threads` workers is
\* made by @multithreaded(threads, pbar=pbar), and lookup(files, checksums) is called:
\* mt.extend(files), then return mt.run(checksums)
CallSearchMultithread ==
    /\ searching.pc \in {"done", "raised"}
    /\ caller.pc = "idle"
    /\ starts = <<>>
    /\ extend(files)
    /\ caller' = [pc |-> "run", op |-> "run", args |-> <<checksums>>]
    /\ UNCHANGED <<api, processor, n_workers, result, threads, calls, starts,
                   returned, outcome, bsVars, dirVars, moreVars>>

-----------------------------------------------------------------------------
(* with SortedBytesFile(file) as reader: ... -- the scope file_contains opens, and
   what can be asked of the reader inside it. `file` is self._file: "none" until
   open() is called, "open" then, "closed" after close(). *)

\* an __exit__ that closes nothing
Exit_leaking(file) == file

\* SortedBytesFile.__exit__: if self._file: self._file.close()
Exit(file) == IF file = "open" THEN "closed" ELSE file

\* len(reader): EmptySortedBytes.__len__ is 0, SortedBytesFile.__len__ is self._len
ReaderLen(reader, data) == IF reader = "EmptySortedBytes" THEN 0 ELSE Len(data) \div nbytes

\* reader[i]: EmptySortedBytes.__getitem__ raises IndexError, SortedBytesFile.__getitem__
\* reads record i
ReaderGet(reader, data, i) ==
    IF reader = "EmptySortedBytes" THEN [raised |-> "IndexError", value |-> None]
    ELSE GetItem(Records(data), i)

\* SortedBytesFile(filename), for a file of the directory: __init__ opens nothing
Reopen(filename) ==
    /\ scope.pc = "none"
    /\ building.pc = "done"
    /\ isfile(filename)
    /\ scope' = [pc |-> "new", filename |-> filename, data |-> ReadFile(filename),
                 reader |-> "none", file |-> "none", raised |-> "no",
                 answers |-> <<>>, opened |-> 0,
                 last |-> [op |-> "none", arg |-> <<>>]]
    /\ UNCHANGED <<execVars, bsVars, dirVars, buildVars, asked, lateVars>>

\* the with statement calls __enter__; when __enter__ raises, __exit__ is not called
ScopeEnter ==
    /\ scope.pc = "new"
    /\ LET e == Enter(scope.data)
       IN scope' =
            IF e.raised # "no"
            THEN [scope EXCEPT !.pc = "raised", !.raised = e.raised]
            ELSE IF e.reader = "EmptySortedBytes"
                 THEN [scope EXCEPT !.pc = "in", !.reader = e.reader]
                 ELSE [scope EXCEPT !.pc = "in", !.reader = e.reader,
                                    !.file = "open", !.opened = @ + 1]
    /\ UNCHANGED <<execVars, bsVars, dirVars, buildVars, asked, lateVars>>

\* what an operation inside the scope leads to: its answer, or its exception, which
\* leaves the scope through __exit__
Answered(op, arg, r) ==
    IF r.raised # "no"
    THEN [scope EXCEPT !.pc = "raised", !.raised = r.raised, !.file = Exit(@),
                       !.last = [op |-> op, arg |-> arg]]
    ELSE [scope EXCEPT !.answers = Append(@, [op |-> op, arg |-> arg, value |-> r.value]),
                       !.last = [op |-> op, arg |-> arg]]

\* checksum in reader
ScopeContains(checksum) ==
    /\ scope.pc = "in"
    /\ Len(scope.answers) < MaxOps
    /\ scope' = Answered("contains", checksum, Contains(scope.reader, scope.data, checksum))
    /\ UNCHANGED <<execVars, bsVars, dirVars, buildVars, asked, lateVars>>

\* reader[i]
ScopeGet(i) ==
    /\ scope.pc = "in"
    /\ scope' = Answered("get", <<i>>, ReaderGet(scope.reader, scope.data, i))
    /\ Len(scope.answers) < MaxOps \/ scope'.pc = "raised"
    /\ UNCHANGED <<execVars, bsVars, dirVars, buildVars, asked, lateVars>>

\* len(reader)
ScopeLen ==
    /\ scope.pc = "in"
    /\ Len(scope.answers) < MaxOps
    /\ scope' = Answered("len", <<>>,
                         [raised |-> "no", value |-> ReaderLen(scope.reader, scope.data)])
    /\ UNCHANGED <<execVars, bsVars, dirVars, buildVars, asked, lateVars>>

\* the block ends or returns (as all() does at the first False): __exit__ is called
ScopeLeave ==
    /\ scope.pc = "in"
    /\ scope' = [scope EXCEPT !.pc = "left", !.file = Exit(@)]
    /\ UNCHANGED <<execVars, bsVars, dirVars, buildVars, asked, lateVars>>

-----------------------------------------------------------------------------
(* WordSearcher.search(words, threads=7) *)

\* if threads is None or threads == 1: return self.searcher.search(words)
\* return self.searcher.search_multithread(words, threads=threads)
\* The words are handed on as they come. search() makes its generator;
\* search_multithread() makes an executor of `threads` workers and calls
\* lookup(files, words): mt.extend(files), then mt.run(words)
WordSearch(words, nthreads) ==
    /\ ~asked.called
    /\ searching.pc = "idle"
    /\ caller.pc = "idle"
    /\ starts = <<>>
    /\ asked' = [called |-> TRUE, words |-> words, threads |-> nthreads]
    /\ checksums' = words
    /\ IF nthreads = None \/ nthreads = <<1>>
       THEN /\ searching' = [searching EXCEPT !.pc = "run"]
            /\ UNCHANGED execVars
       ELSE /\ n_workers' = nthreads[1]
            /\ extend(files)
            /\ caller' = [pc |-> "run", op |-> "run", args |-> <<words>>]
            /\ UNCHANGED <<api, processor, result, threads, calls, starts, returned,
                           outcome, searching>>
    /\ UNCHANGED <<bsVars, directory, suffix, buildVars, scope, lateVars>>

-----------------------------------------------------------------------------
(* WordSearcherAdmin.build_index(prefix='', suffix='.crc', skip_if_exists=True) *)

\* str.split(' '): the pieces between single spaces, the empty ones included
RECURSIVE Split(_)
Split(text) ==
    IF \A i \in DOMAIN text : text[i] # " " THEN <<text>>
    ELSE LET i == CHOOSE j \in DOMAIN text :
                      text[j] = " " /\ \A k \in 1..(j - 1) : text[k] # " "
         IN <<SubSeq(text, 1, i - 1)>> \o Split(SubSeq(text, i + 1, Len(text)))

\* filter(len, row[2].split(' '))
Tokens(text) == SelectSeq(Split(text), LAMBDA t : Len(t) > 0)

\* keys in the order of the integers they encode
SortedAsIntegers(S) ==
    CHOOSE s \in [1..Cardinality(S) -> S] :
        /\ Range(s) = S
        /\ \A i \in 1..(Len(s) - 1) :
              Less([k \in 1..nbytes |-> s[i][nbytes + 1 - k]],
                   [k \in 1..nbytes |-> s[i + 1][nbytes + 1 - k]])

\* sorted(set(...)) of bytes objects
Sorted(S) == CHOOSE s \in [1..Cardinality(S) -> S] : Range(s) = S /\ IsStrictlySorted(s)

\* words = sorted(set(map(self.hasher, filter(len, row[2].split(' ')))))
HashedWords(text) ==
    LET hs == [i \in DOMAIN Tokens(text) |-> hasher(Tokens(text)[i])]
    IN IF \E i \in DOMAIN hs : hs[i].raised # "no"
       THEN [raised |-> "UnicodeEncodeError", value |-> <<>>]
       ELSE [raised |-> "no", value |-> Sorted({hs[i].value : i \in DOMAIN hs})]

\* b''.join(words)
RECURSIVE Flatten(_)
Flatten(recs) == IF recs = <<>> THEN <<>> ELSE Head(recs) \o Flatten(Tail(recs))

\* a row is passed over without a write
SkipRow_never(skip_if_exists, filename) == FALSE

\* if skip_if_exists and os.path.isfile(filename): ... continue
SkipRow(skip_if_exists, filename) == skip_if_exists /\ isfile(filename)

\* with open(filename, 'wb') as f: f.write(data): the file is made or made anew
WriteFile(filename, data) ==
    IF isfile(filename)
    THEN [directory EXCEPT ![DataOf(filename)].data = data]
    ELSE Append(directory, [name |-> filename, data |-> data])

NotBuilding == [pc |-> "idle", i |-> 0, skip_if_exists |-> TRUE, run |-> 0,
                before |-> <<>>, raised |-> "no"]

\* build_index(skip_if_exists=...) is called; `before` keeps the files found
BuildIndex(skip_if_exists) ==
    /\ building.pc \in {"idle", "done", "raised"}
    /\ building.run < MaxRuns
    /\ building' = [pc |-> "rows", i |-> 0, skip_if_exists |-> skip_if_exists,
                    run |-> building.run + 1, before |-> directory, raised |-> "no"]
    /\ UNCHANGED <<execVars, bsVars, dirVars, table, writes, scope, asked, lateVars>>

\* one turn of `for row in table.select()...`
BuildRow ==
    /\ building.pc = "rows"
    /\ building.i < Len(table)
    /\ LET row == table[building.i + 1]
           filename == row.pid \o Crc
           words == HashedWords(row.text)
       IN IF SkipRow(building.skip_if_exists, filename)
          THEN /\ building' = [building EXCEPT !.i = @ + 1]
               /\ UNCHANGED <<directory, writes>>
          ELSE IF words.raised # "no"
          THEN /\ building' = [building EXCEPT !.pc = "raised", !.raised = words.raised]
               /\ UNCHANGED <<directory, writes>>
          ELSE /\ building' = [building EXCEPT !.i = @ + 1]
               /\ directory' = WriteFile(filename, Flatten(words.value))
               /\ writes' = Append(writes, [file |-> filename, run |-> building.run,
                                            text |-> row.text,
                                            data |-> Flatten(words.value)])
    /\ UNCHANGED <<execVars, bsVars, suffix, checksums, searching, table, scope, asked,
                   lateVars>>

\* the rows are exhausted: build_index returns
BuildEnd ==
    /\ building.pc = "rows"
    /\ building.i = Len(table)
    /\ building' = [building EXCEPT !.pc = "done"]
    /\ UNCHANGED <<execVars, bsVars, dirVars, table, writes, scope, asked, lateVars>>

-----------------------------------------------------------------------------
(* LocalCacher: an OrderedDict of at most max_items entries, the keys as str(k).
   An entry is [k, v, at]; `at` tags it for the history with the assignment that
   inserted it. *)

\* the keys handed to the cache: strings and an integer, as Python values
CacheKeys == {[type |-> "str", repr |-> "a"], [type |-> "str", repr |-> "b"],
              [type |-> "str", repr |-> "1"], [type |-> "int", repr |-> "1"]}

\* str(k): a string is itself, an integer its decimal form
str(k) == k.repr

\* LocalCacher(max_items)
LocalCacher(max_items) ==
    [max_items |-> max_items, dict |-> <<>>, sets |-> 0,
     last |-> [op |-> "none", k |-> "", value |-> None, raised |-> "no", before |-> <<>>]]

\* popitem that removes the entry inserted last
popitem_last(d) == SubSeq(d, 1, Len(d) - 1)

\* OrderedDict.popitem(last=False): removes the entry inserted first
popitem(d) == Tail(d)

\* cache[k] = v: if max_items is not None and len(self.dict) >= max_items:
\* self.dict.popitem(last=False) (a KeyError on an empty dict); self.dict[str(k)] = v,
\* which replaces the value of a key that is there and appends a new key
CacheSetItem(k, v) ==
    /\ cache # None
    /\ cache.sets < MaxSets
    /\ LET full == cache.max_items # None /\ Len(cache.dict) >= cache.max_items[1]
           d == IF full THEN popitem(cache.dict) ELSE cache.dict
           done == [op |-> "set", k |-> str(k), value |-> <<v>>, raised |-> "no",
                    before |-> cache.dict]
       IN IF full /\ cache.dict = <<>>
          THEN cache' = [cache EXCEPT !.sets = @ + 1, !.last = [done EXCEPT !.raised = "KeyError"]]
          ELSE cache' = [cache EXCEPT
                   !.sets = @ + 1,
                   !.last = done,
                   !.dict = IF \E i \in DOMAIN d : d[i].k = str(k)
                            THEN [i \in DOMAIN d |->
                                     IF d[i].k = str(k) THEN [d[i] EXCEPT !.v = v] ELSE d[i]]
                            ELSE Append(d, [k |-> str(k), v |-> v, at |-> cache.sets + 1])]
    /\ UNCHANGED <<execVars, bsVars, dirVars, buildVars, scope, asked, iterator, revindex>>

\* cache[k]: return self.dict[str(k)], a KeyError when the key is not there
CacheGetItem(k) ==
    /\ cache # None
    /\ LET held == {i \in DOMAIN cache.dict : cache.dict[i].k = str(k)}
       IN cache' = [cache EXCEPT !.last =
              [op |-> "get", k |-> str(k), before |-> cache.dict,
               raised |-> IF held = {} THEN "KeyError" ELSE "no",
               value |-> IF held = {} THEN None ELSE <<cache.dict[CHOOSE i \in held : TRUE].v>>]]
    /\ UNCHANGED <<execVars, bsVars, dirVars, buildVars, scope, asked, iterator, revindex>>

\* k in cache: return str(k) in self.dict
CacheContains(k) ==
    /\ cache # None
    /\ cache' = [cache EXCEPT !.last =
           [op |-> "in", k |-> str(k), before |-> cache.dict, raised |-> "no",
            value |-> <<\E i \in DOMAIN cache.dict : cache.dict[i].k = str(k)>>]]
    /\ UNCHANGED <<execVars, bsVars, dirVars, buildVars, scope, asked, iterator, revindex>>

-----------------------------------------------------------------------------
(* MediaDataListIterator: pages through a result set of the server, buffer_size
   results at a time *)

\* mh.call(url, {startIndex, nrOfResults}): the server's page, the mediaDataList of
\* at most nrOfResults results from startIndex on
call(server, startIndex, nrOfResults) ==
    IF startIndex >= Len(server) THEN <<>>
    ELSE SubSeq(server, startIndex + 1,
                IF startIndex + nrOfResults < Len(server) THEN startIndex + nrOfResults
                                                          ELSE Len(server))

\* MediaDataListIterator(mh, start_index=..., buffer_size=...); `server` is the result
\* set behind mh, `yielded` and `pc` are the history of the iteration
MediaDataListIterator(server, start_index, buffer_size) ==
    [server |-> server, buffer_size |-> buffer_size, length |-> None, buffer |-> <<>>,
     i |-> start_index, buffer_idx |-> 0, start_index |-> start_index,
     yielded |-> <<>>, pc |-> "iterating"]

\* fetch_next: asks for the page at startIndex = self.i; self.length =
\* results['totalNrOfResults']; self.buffer = results['mediaDataList'] (the total of
\* this result set does not change, so no MediaHavenException)
fetch_next(it) ==
    [it EXCEPT !.length = <<Len(it.server)>>,
               !.buffer = call(it.server, it.i, it.buffer_size)]

\* len(iterator): fetches the first page when the length is not known yet
IterLen ==
    /\ iterator # None
    /\ iterator.length = None
    /\ iterator' = fetch_next(iterator)
    /\ UNCHANGED <<execVars, bsVars, dirVars, buildVars, scope, asked, cache, revindex>>

\* next(iterator): fetch when the length is not known; StopIteration at i >= length;
\* i += 1; buffer_idx += 1; when the buffer is used up and results remain,
\* buffer_idx = 0 and fetch_next(); return self.buffer[self.buffer_idx - 1]
IterNext ==
    /\ iterator # None
    /\ iterator.pc = "iterating"
    /\ LET a == IF iterator.length = None THEN fetch_next(iterator) ELSE iterator
           b == [a EXCEPT !.i = @ + 1, !.buffer_idx = @ + 1]
           c == IF b.buffer_idx >= Len(b.buffer) /\ b.i < b.length[1]
                THEN fetch_next([b EXCEPT !.buffer_idx = 0])
                ELSE b
           item == GetItem(c.buffer, c.buffer_idx - 1)
       IN iterator' =
            IF a.i >= a.length[1] THEN [a EXCEPT !.pc = "StopIteration"]
            ELSE IF item.raised # "no" THEN [c EXCEPT !.pc = item.raised]
            ELSE [c EXCEPT !.yielded = Append(@, item.value)]
    /\ UNCHANGED <<execVars, bsVars, dirVars, buildVars, scope, asked, cache, revindex>>

-----------------------------------------------------------------------------
(* WordSearcherAdmin.build_reverse_index: for every shard, the id of its document
   is appended to the posting file of every key in the shard *)

\* format_bytes(b): '%02X' for every byte of every element of b, as one string
format_bytes(b) ==
    LET hex == <<"0", "1", "2", "3", "4", "5", "6", "7",
                 "8", "9", "A", "B", "C", "D", "E", "F">>
        all == Flatten(b)
    IN Flatten([j \in DOMAIN all |-> <<hex[(all[j] \div 16) + 1], hex[(all[j] % 16) + 1]>>])

\* a posting file named by the first two hex digits only
getfile_flat(word) ==
    LET w == format_bytes(<<word>>)
    IN [a |-> w[1], b |-> w[2], name |-> <<".", "r", "e", "v", ".", "g", "z">>]

\* getfile(word): './revindexes/<a>/<b>/<rest>.rev.gz', a and b being the first two
\* hex digits of the word and rest the others
getfile(word) ==
    LET w == format_bytes(<<word>>)
    IN [a |-> w[1], b |-> w[2],
        name |-> SubSeq(w, 3, Len(w)) \o <<".", "r", "e", "v", ".", "g", "z">>]

\* build_reverse_index up to dowork(files): the directories of every pair of hex
\* digits are made, files = list(self.searcher.files())
RevBuild ==
    /\ revindex.pc = "idle"
    /\ revindex' = [revindex EXCEPT
           !.pc = "dowork",
           !.files = files,
           !.dirs = {<<format_bytes(<<<<16 * x + y>>>>)[1], format_bytes(<<<<16 * x + y>>>>)[2]>> :
                         x \in 0..15, y \in 0..15}]
    /\ UNCHANGED <<execVars, bsVars, dirVars, buildVars, scope, asked, cache, iterator>>

\* dowork(file), on the one worker of @multithreaded(1): pidval = basename(file); a
\* pid without id is logged and passed over; with SortedBytesFile(file) as words:
\* for word in words: getfile(word).write(id_bytes), gzip.open(filename, 'ab')
\* appending to the file. An exception of the block leaves the item unfinished.
RevWork ==
    /\ revindex.pc = "dowork"
    /\ revindex.i < Len(revindex.files)
    /\ LET file == revindex.files[revindex.i + 1]
           pidval == basename(file)
           reader == Enter(ReadFile(file))
           words == IF reader.reader = "SortedBytesFile" THEN Records(ReadFile(file)) ELSE <<>>
           targets == {getfile(words[j]) : j \in DOMAIN words}
       IN IF pidval \notin DOMAIN revindex.pid2id
          THEN revindex' = [revindex EXCEPT !.i = @ + 1]
          ELSE IF reader.raised # "no"
                  \/ \E t \in targets : <<t.a, t.b>> \notin revindex.dirs
          THEN revindex' = [revindex EXCEPT !.pc = "stuck"]
          ELSE revindex' = [revindex EXCEPT
                   !.i = @ + 1,
                   !.postings = [t \in DOMAIN @ \cup targets |->
                       LET old == IF t \in DOMAIN @ THEN @[t] ELSE <<>>
                       IN old \o [j \in 1..Cardinality({n \in DOMAIN words : getfile(words[n]) = t})
                                     |-> revindex.pid2id[pidval]]]]
    /\ UNCHANGED <<execVars, bsVars, dirVars, buildVars, scope, asked, cache, iterator>>

\* every file was worked on: run() returns and with it build_reverse_index
RevDone ==
    /\ revindex.pc = "dowork"
    /\ revindex.i = Len(revindex.files)
    /\ revindex' = [revindex EXCEPT !.pc = "done"]
    /\ UNCHANGED <<execVars, bsVars, dirVars, buildVars, scope, asked, cache, iterator>>

-----------------------------------------------------------------------------
(* The initial states *)

NoBuild ==
    /\ table = <<>>
    /\ building = NotBuilding
    /\ writes = <<>>

NoScope == [pc |-> "none", filename |-> <<>>, data |-> <<>>, reader |-> "none",
            file |-> "none", raised |-> "no", answers |-> <<>>, opened |-> 0,
            last |-> [op |-> "none", arg |-> <<>>]]

NotAsked == [called |-> FALSE, words |-> <<>>, threads |-> None]

NoIndexing ==
    /\ NoBuild /\ scope = NoScope /\ asked = NotAsked
    /\ cache = None /\ iterator = None /\ revindex = None

\* a MultiThread as __init__ leaves it
NewMultiThread ==
    /\ q = <<>>
    /\ unfinished_tasks = 0
    /\ result = None
    /\ threads = <<>>
    /\ caller = Idle
    /\ puts = <<>>
    /\ calls = {}
    /\ starts = <<>>
    /\ returned = <<>>
    /\ outcome = [op |-> "none", raised |-> "no", n |-> 0]

NoSearch ==
    /\ directory = <<>>
    /\ suffix = Crc
    /\ checksums = <<>>
    /\ searching = [pc |-> "idle", i |-> 0, yielded |-> <<>>, raised |-> "no"]

NoBinarySearch == bs = BSCall(<<>>, <<>>, None, None)

Init ==
    /\ api \in {"MultiThread", "multithreaded"}
    /\ processor \in Processors
    /\ n_workers \in 1..MaxWorkers
    /\ NewMultiThread
    /\ NoBinarySearch
    /\ NoSearch
    /\ NoIndexing

\* binary_search is handed a sequence of keys (sorted, when its caller kept the
\* contract), a key, and bounds or none
SortedSeqs == {s \in SeqsUpTo(Keys, MaxLen) : IsSorted(s)}
Bounds == {None} \cup {<<n>> : n \in -1..MaxLen}

InitBS ==
    /\ api = "MultiThread" /\ processor = "proc" /\ n_workers = 1
    /\ NewMultiThread
    /\ NoSearch
    /\ NoIndexing
    /\ \E alist \in SeqsUpTo(Keys, MaxLen), item \in Keys, lo \in Bounds, hi \in Bounds :
           bs = BSCall(alist, item, lo, hi)

\* a shard is written once, sorted and without duplicates; a file of another size
\* than a multiple of nbytes is no shard, and search meets it all the same
Shards == {Flatten(r) : r \in {s \in SeqsUpTo(Keys, MaxRecords) : IsStrictlySorted(s)}}
Contents == Shards \cup {<<0>>}
Directories ==
    UNION {{[k \in 1..n |-> [name |-> FileName(k, e[k]), data |-> d[k]]] :
                d \in [1..n -> Contents], e \in [1..n -> Suffixes]}
           : n \in 0..MaxFiles}

InitSearch ==
    /\ api = "multithreaded" /\ processor = "lookup"
    /\ n_workers \in 1..MaxWorkers
    /\ NewMultiThread
    /\ NoBinarySearch
    /\ NoIndexing
    /\ directory \in Directories
    /\ suffix \in Suffixes
    /\ checksums \in SeqsUpTo(Keys \cup {ShortKey}, MaxQuery)
    /\ searching = [pc |-> "idle", i |-> 0, yielded |-> <<>>, raised |-> "no"]

-----------------------------------------------------------------------------
Next ==
    \/ \E alist \in SeqsUpTo(Vals, MaxPut) : CallExtend(alist)
    \/ \E alist \in SeqsUpTo(Vals, MaxPut), args \in Extras : CallDecorated(alist, args)
    \/ DecoratedRun
    \/ \E op \in {"start", "run"}, args \in Extras : CallStart(op, args)
    \/ CallWait
    \/ Join
    \/ \E t \in DOMAIN threads : Get(t)
    \/ \E t \in DOMAIN threads : Call(t)

Spec == Init /\ [][Next]_vars

\* a new LocalCacher, with or without a maximum
InitCache ==
    /\ api = "MultiThread" /\ processor = "proc" /\ n_workers = 1
    /\ NewMultiThread /\ NoSearch /\ NoBinarySearch
    /\ NoBuild /\ scope = NoScope /\ asked = NotAsked
    /\ iterator = None /\ revindex = None
    /\ \E max_items \in {None} \cup {<<m>> : m \in 0..MaxItems} : cache = LocalCacher(max_items)

NextCache ==
    \/ \E k \in CacheKeys, v \in Vals : CacheSetItem(k, v)
    \/ \E k \in CacheKeys : CacheGetItem(k)
    \/ \E k \in CacheKeys : CacheContains(k)

SpecCache == InitCache /\ [][NextCache]_vars

\* build_reverse_index starts from the shards build_index wrote for some documents
\* (<pid>.crc, the keys strictly ascending), the searcher of a WordSearcher (suffix
\* '.crc'), a pid map that knows the ids of some of the documents (row id k as 4
\* bytes, little-endian) and no posting file
InitReverse ==
    /\ api = "MultiThread" /\ processor = "proc" /\ n_workers = 1
    /\ NewMultiThread /\ NoBinarySearch /\ NoBuild
    /\ scope = NoScope /\ asked = NotAsked /\ cache = None /\ iterator = None
    /\ checksums = <<>>
    /\ searching = [pc |-> "idle", i |-> 0, yielded |-> <<>>, raised |-> "no"]
    /\ suffix = Crc
    /\ \E n \in 0..MaxFiles : \E datas \in [1..n -> Shards] :
           directory = [k \in 1..n |-> [name |-> FileName(k, Crc), data |-> datas[k]]]
    /\ \E mapped \in SUBSET (1..MaxFiles) :
           revindex = [pc |-> "idle", files |-> <<>>, i |-> 0, dirs |-> {},
                       postings |-> <<>>,
                       pid2id |-> [p \in {<<Stems[k]>> : k \in mapped} |->
                                      ToBytes(CHOOSE k \in mapped : <<Stems[k]>> = p, nbytes)]]

NextReverse == RevBuild \/ RevWork \/ RevDone

SpecReverse == InitReverse /\ [][NextReverse]_vars

\* a new iterator over a result set of results 1..L, from any start index
InitIterator ==
    /\ api = "MultiThread" /\ processor = "proc" /\ n_workers = 1
    /\ NewMultiThread /\ NoSearch /\ NoBinarySearch
    /\ NoBuild /\ scope = NoScope /\ asked = NotAsked
    /\ cache = None /\ revindex = None
    /\ \E L \in 0..MaxTotal, start_index \in 0..MaxTotal, buffer_size \in 1..MaxBuffer :
           iterator = MediaDataListIterator([n \in 1..L |-> n], start_index, buffer_size)

NextIterator == IterLen \/ IterNext

SpecIterator == InitIterator /\ [][NextIterator]_vars

NextBS == BSBegin \/ BSLoop \/ BSEnd

SpecBS == InitBS /\ [][NextBS]_vars

NextSearch ==
    \/ CallSearch
    \/ SearchStep
    \/ CallSearchMultithread
    \/ DecoratedRun
    \/ Join
    \/ \E t \in DOMAIN threads : Get(t)
    \/ \E t \in DOMAIN threads : Call(t)

SpecSearch == InitSearch /\ [][NextSearch]_vars

\* build_index is run over a table of rows, into an empty directory
Texts == SeqsUpTo(Ascii, MaxText) \cup {<<"U+00E9">>}
Pids(k) == {<<Stems[j]>> : j \in 1..k}
Tables ==
    UNION {{t \in [1..n -> [pid : Pids(n), text : Texts]] : \A k \in 1..n : t[k].pid \in Pids(k)}
           : n \in 0..MaxRows}

InitBuild ==
    /\ api = "MultiThread" /\ processor = "proc" /\ n_workers = 1
    /\ NewMultiThread
    /\ NoBinarySearch
    /\ NoSearch
    /\ table \in Tables
    /\ building = NotBuilding
    /\ writes = <<>>
    /\ scope = NoScope
    /\ asked = NotAsked
    /\ cache = None /\ iterator = None /\ revindex = None

NextBuild ==
    \/ \E skip_if_exists \in BOOLEAN : BuildIndex(skip_if_exists)
    \/ BuildRow
    \/ BuildEnd

SpecBuild == InitBuild /\ [][NextBuild]_vars

\* a file is opened in a scope: a shard, or bytes that are no whole number of keys
Malformed == {<<0>>} \cup {k \o <<0>> : k \in Keys}

\* the indexes a reader is asked for: inside the file and on either side of it
Indexes == (0 - MaxRecords - 1)..MaxRecords

InitFile ==
    /\ api = "MultiThread" /\ processor = "proc" /\ n_workers = 1
    /\ NewMultiThread
    /\ NoBinarySearch
    /\ NoSearch
    /\ NoBuild
    /\ asked = NotAsked
    /\ \E data \in Shards \cup Malformed : scope = [NoScope EXCEPT !.pc = "new", !.data = data]
    /\ cache = None /\ iterator = None /\ revindex = None

NextFile ==
    \/ ScopeEnter
    \/ \E checksum \in Keys \cup {ShortKey} : ScopeContains(checksum)
    \/ \E i \in Indexes : ScopeGet(i)
    \/ ScopeLen
    \/ ScopeLeave

SpecFile == InitFile /\ [][NextFile]_vars

\* the words a text can hold, and their keys
Words == {w \in SeqsUpTo(Ascii \ {" "}, MaxText) : w # <<>>}
Hashes == [w \in Words |-> hasher(w).value]

\* build_index has been called for a table of one row at most; the shard it writes
\* is reopened and asked for the keys of words
InitRound ==
    /\ api = "MultiThread" /\ processor = "proc" /\ n_workers = 1
    /\ NewMultiThread
    /\ NoBinarySearch
    /\ NoSearch
    /\ table \in {t \in Tables : Len(t) <= 1}
    /\ building = [NotBuilding EXCEPT !.pc = "rows", !.run = 1]
    /\ writes = <<>>
    /\ scope = NoScope
    /\ asked = NotAsked
    /\ cache = None /\ iterator = None /\ revindex = None

NextRound ==
    \/ BuildRow
    \/ BuildEnd
    \/ \E k \in DOMAIN directory : Reopen(directory[k].name)
    \/ ScopeEnter
    \/ \E w \in Words : ScopeContains(Hashes[w])
    \/ ScopeLeave

SpecRound == InitRound /\ [][NextRound]_vars

\* a WordSearcher over a directory (its store has the default suffix) is asked for words
AskedWords == {w \in SeqsUpTo(Ascii \ {" ", "\t"}, MaxWord) : w # <<>>}
Threads == {None} \cup {<<n>> : n \in 1..MaxWorkers}

InitWord ==
    /\ api = "multithreaded" /\ processor = "lookup" /\ n_workers = 1
    /\ NewMultiThread
    /\ NoBinarySearch
    /\ NoIndexing
    /\ directory \in Directories
    /\ suffix = Crc
    /\ checksums = <<>>
    /\ searching = [pc |-> "idle", i |-> 0, yielded |-> <<>>, raised |-> "no"]

NextWord ==
    \/ \E words \in SeqsUpTo(AskedWords, MaxQuery), n \in Threads : WordSearch(words, n)
    \/ SearchStep
    \/ DecoratedRun
    \/ Join
    \/ \E t \in DOMAIN threads : Get(t)
    \/ \E t \in DOMAIN threads : Call(t)

SpecWord == InitWord /\ [][NextWord]_vars

-----------------------------------------------------------------------------
(* What the claims speak of *)

\* the items put for run k, the calls made for them, and those that returned a value
ItemsOfRun(k) == {i \in DOMAIN puts : puts[i].run = k}
CallsOfRun(k) == {c \in calls : c.run = k}
ValuesOfRun(k) == {c \in CallsOfRun(k) : ~c.res.raised /\ c.res.value # None}
InputOfRun(k) == [j \in DOMAIN SelectSeq(puts, LAMBDA p : p.run = k) |->
                     SelectSeq(puts, LAMBDA p : p.run = k)[j].val]

\* the list holds exactly the values of the calls cs, as a multiset
SameBag(list, cs) ==
    \A v \in Range(list) \cup {c.res.value : c \in cs} :
        Count(list, v) = Cardinality({c \in cs : c.res.value = v})

\* the processor raises on no argument list it can be given here
NeverRaises ==
    \A v \in Vals, a \in Extras, i \in 0..(n_workers - 1) :
        ~Processor(processor, Argv(a, v), i).raised

\* what the processor returns does not depend on thread_id
IgnoresThreadId ==
    \A v \in Vals, a \in Extras, i \in 0..(n_workers - 1) :
        Processor(processor, Argv(a, v), i) = Processor(processor, Argv(a, v), 0)

\* nothing is queued, no worker holds an item, and yet tasks count as unfinished:
\* no worker step is enabled, so a caller inside join() stays there for ever
Stuck ==
    /\ q = <<>>
    /\ \A t \in DOMAIN threads : threads[t].pc = "get"
    /\ unfinished_tasks > 0

InRun == caller.pc = "join" /\ caller.op = "run"

-----------------------------------------------------------------------------
\* C1: on a freshly constructed executor whose processor never raises, run() is never
\* left waiting for ever, and once it has returned every item put before it has been
\* processed exactly once, by one worker, and the list returned holds exactly the
\* non-null return values of those calls, one per item, as a multiset.
C1_FreshRun ==
    (starts # <<>> /\ starts[1].op = "run" /\ NeverRaises) =>
        /\ (InRun /\ returned = <<>>) => ~Stuck
        /\ returned # <<>> =>
              /\ \A i \in ItemsOfRun(1) : Cardinality({c \in calls : c.id = i}) = 1
              /\ SameBag(returned[1], ValuesOfRun(1))

\* a first run() has returned after two workers processed one item each, and a value
\* came back
C1_Witness ==
    /\ starts # <<>> /\ starts[1].op = "run" /\ NeverRaises
    /\ returned # <<>> /\ returned[1] # <<>>
    /\ \E c, d \in CallsOfRun(1) : c.thread_id # d.thread_id

\* C2: if the processor raises on one or more items, run() still terminates: the
\* caller is unblocked and gets the results of the items that did not raise.
C2_RunTerminates ==
    (InRun /\ \E c \in CallsOfRun(Len(returned) + 1) : c.res.raised) => ~Stuck

\* C3: an item whose processing raises is not retried and adds nothing to the result,
\* the worker goes on taking items, and every other item put is still processed
\* exactly once and its non-null return value is appended to the result.
C3_OthersKept ==
    (\E c \in calls : c.res.raised) =>
        /\ \A c \in calls : c.nth = 1
        /\ (threads # <<>> /\ q # <<>>) => \E t \in DOMAIN threads : ENABLED Get(t) \/ threads[t].pc = "call"
        /\ \A c \in calls : (~c.res.raised /\ c.res.value # None) => c.running

\* C4: after run() has returned the executor is idle and can be used again: of the
\* items put later no one is processed while the executor is idle, the next run()
\* returns, and returns exactly the non-null return values of those items.
C4_Reusable ==
    NeverRaises =>
        /\ \A c \in calls : c.run >= 2 => c.running
        /\ (InRun /\ returned # <<>>) => ~Stuck
        /\ \A k \in DOMAIN returned : SameBag(returned[k], ValuesOfRun(k))

\* C5: every invocation of a callable made by @multithreaded has an executor of its
\* own: its items are processed only by workers started for that invocation, only
\* with that invocation's extra arguments, and the invocation returns exactly the
\* non-null results of its own iterable, on a second invocation too.
C5_OwnExecutor ==
    api = "multithreaded" =>
        /\ \A c \in calls : c.start = c.run /\ c.args = c.want
        /\ \A k \in DOMAIN returned : SameBag(returned[k], ValuesOfRun(k))

\* C6: start() or run() on an executor that is running raises AlreadyRunningError;
\* the call starts no worker thread and leaves the result and the queue as they were.
C6_Rejected ==
    [][(running /\ outcome' # outcome) =>
          /\ outcome'.raised = "AlreadyRunningError"
          /\ UNCHANGED <<threads, result, q, unfinished_tasks>>]_vars

\* run() has been rejected on a running executor
C6_Witness == outcome.raised = "AlreadyRunningError" /\ outcome.op = "run" /\ threads # <<>>

\* C7: for the same processor, items and worker count, the set of non-null results
\* of the threaded executor equals that of the single-threaded variant (stated for
\* the processors that ignore thread_id, which is 0 in the single-threaded variant).
C7_SameSet ==
    IgnoresThreadId =>
        \A k \in DOMAIN returned :
            LET single == singlethreaded(processor, InputOfRun(k), starts[k].args)
            IN ~single.raised => Range(returned[k]) = Range(single.value)

-----------------------------------------------------------------------------
\* C8: on a sequence sorted ascending, binary_search(S, k) returns an index i with
\* S[i] = k when k occurs in S, and None when it does not, an empty S included.
C8_BinarySearch ==
    (bs.alist \in SortedSeqs /\ bs.given = <<None, None>>
        /\ bs.pc \notin {"begin", "loop"}) =>
        /\ bs.pc = "done"
        /\ IF bs.item \in Range(bs.alist)
           THEN bs.ret # None /\ GetItem(bs.alist, bs.ret[1]).value = bs.item
           ELSE bs.ret = None

\* a key was found in a sequence of MaxLen elements after the loop had narrowed twice
C8_Witness ==
    /\ bs.alist \in SortedSeqs /\ bs.given = <<None, None>> /\ bs.pc = "done"
    /\ Len(bs.alist) = MaxLen /\ bs.ret # None /\ bs.reads >= 3

\* every key searched for is among the keys of that file
HoldsAll(file) == \A k \in Range(checksums) : k \in Range(Records(ReadFile(file)))

\* the shards of the store: the entries whose name ends with the configured suffix
IsShard(file) == EndsWith(file, suffix)
ShardsOfStore == {directory[k].name : k \in {j \in DOMAIN directory : IsShard(directory[j].name)}}

\* C9: search(keys) yields a shard if and only if every key searched for is in that
\* shard: what it yields is a shard holding all the keys, and once it has run to its
\* end every shard holding all the keys has been yielded.
C9_Search ==
    /\ \A f \in Range(searching.yielded) : IsShard(f) /\ HoldsAll(f)
    /\ searching.pc = "done" =>
          \A f \in ShardsOfStore : HoldsAll(f) => f \in Range(searching.yielded)

\* C10: search_multithread(keys, threads) returns, and what it returns is the set of
\* matches search(keys) yields, each matching shard exactly once, whatever the
\* interleaving of the workers.
C10_SameMatches ==
    /\ InRun => ~Stuck
    /\ returned # <<>> =>
          /\ Range(returned[1]) = {<<f>> : f \in Range(searching.yielded)}
          /\ \A f \in Range(searching.yielded) : Count(returned[1], <<f>>) = 1

-----------------------------------------------------------------------------
\* the text the file of the scope was written from, and the keys of its tokens
TextOf(filename) == (CHOOSE i \in DOMAIN writes : writes[i].file = filename)
HashedTokens(text) == {hasher(Tokens(text)[k]).value : k \in DOMAIN Tokens(text)}

\* C11: a word hashed by hasher and written into a shard as build_index writes it
\* (the sorted set of the hashed tokens) is found when the shard is reopened as a
\* SortedBytesFile and asked for the hash of that word, whatever the other words of
\* the document; a word whose hash is none of the document's is not found.
C11_RoundTrip ==
    scope.pc \notin {"none", "new"} =>
        /\ scope.raised = "no"
        /\ \A i \in DOMAIN scope.answers :
              scope.answers[i].value <=>
                  scope.answers[i].arg \in HashedTokens(writes[TextOf(scope.filename)].text)

\* a shard written from a text of two words was reopened: the key of its second
\* word was found, the key of another word was not
C11_Witness ==
    /\ scope.pc = "left" /\ Len(scope.data) = 2 * nbytes
    /\ Len(scope.answers) = 2
    /\ scope.answers[1].value /\ ~scope.answers[2].value
    /\ scope.answers[1].arg = hasher(Tokens(writes[1].text)[2]).value

\* the non-empty tokens of a text, whitespace of any kind being what delimits them
Whitespace == {" ", "\t"}
WhitespaceTokens(text) ==
    {SubSeq(text, i, j) : <<i, j>> \in
        {p \in (DOMAIN text) \X (DOMAIN text) :
            /\ p[1] <= p[2]
            /\ \A k \in p[1]..p[2] : text[k] \notin Whitespace
            /\ p[1] = 1 \/ text[p[1] - 1] \in Whitespace
            /\ p[2] = Len(text) \/ text[p[2] + 1] \in Whitespace}}

\* C12: the bytes build_index writes for a row are the hashes of the distinct
\* non-empty whitespace-separated tokens of its text, each once, strictly ascending
\* in the byte order of the keys, one after the other.
C12_ShardBytes ==
    \A i \in DOMAIN writes :
        writes[i].data = Flatten(Sorted({Hashes[t] : t \in WhitespaceTokens(writes[i].text)}))

\* C13: a second run of build_index with skip_if_exists over the same rows leaves
\* every file it finds as it is: the file is not written again, its bytes do not
\* change.
C13_Idempotent ==
    (building.run >= 2 /\ building.skip_if_exists) =>
        /\ \A k \in DOMAIN building.before : directory[k] = building.before[k]
        /\ \A i \in DOMAIN writes :
              writes[i].run = building.run =>
                  \A k \in DOMAIN building.before : building.before[k].name # writes[i].file

\* a second run with skip_if_exists has passed over every row of a table whose
\* first run wrote files
C13_Witness ==
    /\ building.run = 2 /\ building.skip_if_exists /\ building.pc = "done"
    /\ building.before # <<>> /\ Len(table) = MaxRows
    /\ table[1].pid = table[2].pid /\ table[1].text # table[2].text

\* C14: WordSearcher.search(words, threads) hashes every word with hasher before it
\* delegates: the keys the store's search or search_multithread is given are the
\* hashes of the words, not the words.
C14_HashedQuery ==
    asked.called =>
        checksums = [i \in DOMAIN asked.words |-> hasher(asked.words[i]).value]

\* C15: for a store with the configured suffix s, files() lists exactly the entries
\* of the directory whose name ends with s, whatever s is.
C15_Files ==
    searching.pc # "idle" =>
        files = SelectSeq([k \in DOMAIN directory |-> directory[k].name], IsShard)

\* C16: what search(keys) yields and search_multithread(keys, threads) returns are
\* document ids: basename(path) of every matching shard, not its path.
C16_DocumentIds ==
    /\ \A i \in DOMAIN searching.yielded :
          \E f \in Range(files) : searching.yielded[i] = basename(f)
    /\ returned # <<>> =>
          \A i \in DOMAIN returned[1] :
              \E f \in Range(files) : returned[1][i] = <<basename(f)>>

\* C19: a search for keys one of which has another width than the key width fails
\* with a format error for every store that has a shard, whatever the other keys
\* and whatever the shards hold: it neither runs to its end nor returns.
C19_WrongWidth ==
    (suffix = Crc /\ files # <<>> /\ \E k \in Range(checksums) : Len(k) # nbytes) =>
        /\ searching.pc # "done"
        /\ returned = <<>>

\* the key sequences a file can be asked for
Queries == SeqsUpTo(Keys \cup {ShortKey}, MaxQuery)

\* C17: entering a SortedBytesFile whose size is no multiple of the key width fails
\* with a format error (EOFError): no reader is handed out, no question is answered
\* for that file, no file is opened.
C17_Malformed ==
    (Len(scope.data) % nbytes # 0 /\ scope.pc \notin {"none", "new"}) =>
        /\ scope.pc = "raised" /\ scope.raised = "EOFError"
        /\ scope.reader = "none" /\ scope.answers = <<>>
        /\ scope.file = "none" /\ scope.opened = 0
        /\ \A keys \in Queries : file_contains(scope.data, keys).raised = "EOFError"

\* a file of one key and one more byte has been entered, and EOFError was raised
C17_Witness ==
    /\ Len(scope.data) > nbytes /\ Len(scope.data) % nbytes # 0
    /\ scope.pc = "raised" /\ scope.raised = "EOFError"

\* C18: entering a SortedBytesFile on a file of size 0 does not fail: the reader is
\* the empty one, its len() is 0, `key in reader` is false for every key, reader[i]
\* raises IndexError for every i; a search for one key or more never matches it.
C18_EmptyFile ==
    (scope.data = <<>> /\ scope.pc \notin {"none", "new"}) =>
        /\ scope.reader = "EmptySortedBytes"
        /\ scope.raised \in {"no", "IndexError"}
        /\ \A i \in DOMAIN scope.answers :
              LET a == scope.answers[i]
              IN /\ a.op # "get"
                 /\ a.op = "len" => a.value = 0
                 /\ a.op = "contains" => a.value = FALSE
        /\ \A i \in -1..MaxRecords :
              ReaderGet(scope.reader, scope.data, i).raised = "IndexError"
        /\ \A keys \in Queries \ {<<>>} :
              file_contains(scope.data, keys) = [raised |-> "no", value |-> FALSE]

\* an empty file was entered, asked for its length and for a key, and reader[i]
\* then raised IndexError
C18_Witness ==
    /\ scope.data = <<>> /\ scope.pc = "raised" /\ scope.raised = "IndexError"
    /\ \E i, j \in DOMAIN scope.answers :
          scope.answers[i].op = "len" /\ scope.answers[j].op = "contains"

\* C20: the file handle of a SortedBytesFile used in a scope is released when the
\* scope is left, however it is left: at its end or by a return, by an exception
\* raised inside (KeyError, IndexError), or without a file opened (empty file, or
\* EOFError in __enter__). A handle is open only inside the scope, one at most.
C20_Released ==
    /\ scope.pc \in {"left", "raised"} => scope.file # "open"
    /\ scope.file = "open" => scope.pc = "in"
    /\ scope.opened <= 1
    /\ scope.file = "closed" <=> (scope.opened = 1 /\ scope.pc \in {"left", "raised"})

\* a key of the wrong width was asked for in an open file: KeyError left the scope
\* and the file is closed
C20_Witness ==
    /\ scope.pc = "raised" /\ scope.raised = "KeyError"
    /\ scope.file = "closed" /\ scope.answers # <<>>

\* C21: for an open SortedBytesFile of n records, reader[i] is record i for
\* 0 <= i < n and record n + i for -n <= i < 0, and raises IndexError for every
\* i >= n and every i < -n; what it returns is the nbytes bytes at offset
\* index * nbytes of the file.
C21_GetItem ==
    (scope.reader = "SortedBytesFile" /\ scope.last.op = "get") =>
        LET n == Len(scope.data) \div nbytes
            i == scope.last.arg[1]
            index == IF i < 0 THEN n + i ELSE i
        IN IF i >= n \/ i < 0 - n
           THEN scope.pc = "raised" /\ scope.raised = "IndexError"
           ELSE /\ scope.pc # "raised" /\ scope.raised = "no"
                /\ scope.answers[Len(scope.answers)].value =
                       SubSeq(scope.data, index * nbytes + 1, index * nbytes + nbytes)

\* the last record of a file of two was read through a negative index
C21_Witness ==
    /\ scope.reader = "SortedBytesFile" /\ Len(scope.data) = 2 * nbytes
    /\ scope.last = [op |-> "get", arg |-> <<0 - 1>>]
    /\ scope.pc = "in"
    /\ scope.answers[Len(scope.answers)].value = SubSeq(scope.data, nbytes + 1, 2 * nbytes)

C24_ThreadId ==
    /\ \A c \in calls : c.thread_id \in 0..(n_workers - 1)
    /\ \A t, u \in DOMAIN threads :
           (t # u /\ threads[t].pc = "call" /\ threads[u].pc = "call") =>
               threads[t].thread_id # threads[u].thread_id
    /\ \A c \in calls : processor = "refl" =>
           LET r == singlethreaded("refl", <<puts[c.id].val>>, c.args).value[1]
           IN r[Len(r)] = 0

\* C29: concurrency is bounded by n_workers: over any sequence of runs on one
\* executor, the number of worker threads that exist for it and the number of
\* calls of the processor in progress at the same time never exceed n_workers.
C29_Bounded ==
    /\ Len(threads) <= n_workers
    /\ Cardinality({t \in DOMAIN threads : threads[t].pc = "call"}) <= n_workers

\* every item put so far has been processed, and the list in `result` holds exactly
\* the non-null values returned for the items put since the last run() returned
WaitDone ==
    /\ \A i \in DOMAIN puts : \E c \in calls : c.id = puts[i].id /\ ~c.res.raised
    /\ running => SameBag(result[1], ValuesOfRun(Len(returned) + 1))

\* C25: with start(), append and wait(): result is None before start() and an empty
\* list directly after it; an item appended while running is processed by the
\* workers already started; and wait() returns only when every item appended
\* before it returns has been processed and its non-null result added to result.
C25_Asynchronous ==
    [][/\ starts = <<>> => result = None
       /\ (Len(starts') > Len(starts) /\ starts'[Len(starts')].op = "start") =>
              result' = List(<<>>)
       /\ (caller.pc = "join" /\ caller.op = "wait" /\ caller'.pc = "idle") => WaitDone'
      ]_vars

\* after start(), wait() is about to return: an item appended while running was
\* processed by a worker of that start and its value is in result
C25_Witness ==
    /\ Len(starts) = 1 /\ starts[1].op = "start"
    /\ caller.pc = "join" /\ caller.op = "wait" /\ JoinReady
    /\ WaitDone
    /\ \E i \in DOMAIN puts, c \in calls :
          /\ puts[i].running /\ c.id = puts[i].id /\ c.start = 1
          /\ c.res.value # None /\ Count(result[1], c.res.value) >= 1

\* C27: binary_search called with invalid bounds (start < 0, start > stop, or
\* stop >= len(sequence), the defaults being the whole sequence) returns not-found
\* immediately: it reads no element, raises no IndexError and returns no index.
C27_InvalidBounds ==
    LET lo == IF bs.given[1] = None THEN 0 ELSE bs.given[1][1]
        hi == IF bs.given[2] = None THEN Len(bs.alist) - 1 ELSE bs.given[2][1]
    IN ((lo < 0 \/ lo > hi \/ hi >= Len(bs.alist)) /\ bs.pc # "begin") =>
           bs.pc = "done" /\ bs.ret = None /\ bs.reads = 0 /\ bs.raised = "no"

\* C28: binary_search terminates on every sequence of length n >= 1, sorted or not,
\* searched within bounds 0 <= start <= stop <= n - 1 (the defaults included): every
\* turn of the loop strictly shrinks [start, stop] and keeps it within those limits,
\* the step after the loop returns, and at most ceil(log2(n)) + 1 elements are
\* read in total.
C28_Terminates ==
    [][LET n == Len(bs.alist)
           lo == IF bs.given[1] = None THEN 0 ELSE bs.given[1][1]
           hi == IF bs.given[2] = None THEN n - 1 ELSE bs.given[2][1]
           log == CHOOSE k \in 0..n : 2^k >= n /\ \A j \in 0..(k - 1) : 2^j < n
       IN (n >= 1 /\ 0 <= lo /\ lo <= hi /\ hi <= n - 1) =>
             /\ bs'.pc \in {"loop", "done"}
             /\ bs'.pc = "loop" =>
                    0 <= bs'.start[1] /\ bs'.start[1] <= bs'.stop[1] /\ bs'.stop[1] <= n - 1
             /\ InLoop(bs) =>
                    bs'.stop[1] - bs'.start[1] < bs.stop[1] - bs.start[1]
             /\ AtEnd(bs) => bs'.pc = "done"
             /\ bs'.reads <= log + 1
      ]_vars

\* a search of an unsorted sequence of MaxLen elements has returned after reading as
\* many elements as the limit allows
C28_Witness ==
    /\ bs.pc = "done" /\ bs.given = <<None, None>>
    /\ Len(bs.alist) = MaxLen /\ ~IsSorted(bs.alist)
    /\ bs.reads = 1 + CHOOSE k \in 0..MaxLen : 2^k >= MaxLen /\ \A j \in 0..(k - 1) : 2^j < MaxLen

\* C26: a LocalCacher with max_items = m >= 1 never holds more than m entries after
\* any sequence of item assignments; assigning a new key while m entries are held
\* evicts the entry inserted first (reads change neither the entries nor their
\* order) and keeps the other m - 1 entries, and the key just assigned is
\* retrievable immediately.
C26_Bounded ==
    (cache.max_items # None /\ cache.max_items[1] >= 1) =>
        LET m == cache.max_items[1]
            before == cache.last.before
            Keys_(d) == {d[i].k : i \in DOMAIN d}
        IN /\ Len(cache.dict) <= m
           /\ cache.last.op \in {"get", "in"} => cache.dict = before
           /\ cache.last.op = "set" =>
                 /\ cache.last.raised = "no"
                 /\ \E i \in DOMAIN cache.dict :
                        cache.dict[i].k = cache.last.k /\ <<cache.dict[i].v>> = cache.last.value
                 /\ (cache.last.k \notin Keys_(before) /\ Len(before) = m) =>
                        LET oldest == CHOOSE e \in Range(before) :
                                         \A f \in Range(before) : e.at <= f.at
                        IN /\ Keys_(cache.dict) = (Keys_(before) \ {oldest.k}) \cup {cache.last.k}
                           /\ \A e \in Range(before) \ {oldest} : e \in Range(cache.dict)

\* a cache of two entries, the older of them assigned again since, was given a third
\* key: the older entry went and the newer stayed
C26_Witness ==
    /\ cache.max_items = <<2>> /\ cache.last.op = "set" /\ cache.sets = 4
    /\ Len(cache.last.before) = 2 /\ Len(cache.dict) = 2
    /\ cache.last.before[1].at = 1
    /\ cache.dict[1] = cache.last.before[2]
    /\ cache.dict[2].k = cache.last.k /\ cache.dict[2].at = 4

\* C30: iterating a MediaDataListIterator from start_index 0 over a result set of
\* L results that the server returns in pages of buffer_size yields exactly L
\* items, each result exactly once and in the server's order, for every L >= 0 and
\* every buffer_size >= 1, also when L exceeds buffer_size and a page is fetched
\* during the iteration.
C30_EachOnce ==
    iterator.start_index = 0 =>
        /\ iterator.pc \in {"iterating", "StopIteration"}
        /\ iterator.yielded = SubSeq(iterator.server, 1, Len(iterator.yielded))
        /\ iterator.pc = "StopIteration" => iterator.yielded = iterator.server

\* C22: after build_reverse_index has run once over shards written by build_index,
\* starting without posting files, the posting file chosen by the hex form of a key k
\* (first digit / second digit / other digits and suffix) holds the id-key of
\* document d exactly once if shard d holds k and not at all otherwise, for every
\* key k and every document d with a mapped id; distinct keys have distinct posting
\* files, each in a directory made up front.
C22_Postings ==
    revindex.pc = "done" =>
        /\ \A k \in Keys, d \in DOMAIN directory :
              LET pid == basename(directory[d].name)
                  posting == IF getfile(k) \in DOMAIN revindex.postings
                             THEN revindex.postings[getfile(k)] ELSE <<>>
              IN pid \in DOMAIN revindex.pid2id =>
                    Count(posting, revindex.pid2id[pid]) =
                       IF k \in Range(Records(directory[d].data)) THEN 1 ELSE 0
        /\ \A k, l \in Keys : k # l => getfile(k) # getfile(l)
        /\ \A t \in DOMAIN revindex.postings : <<t.a, t.b>> \in revindex.dirs

\* two documents with ids share a key and one of them has another key of its own:
\* the posting file of the shared key holds both ids, the other posting file one
C22_Witness ==
    /\ revindex.pc = "done"
    /\ Cardinality(DOMAIN revindex.pid2id) = 2
    /\ \E t, u \in DOMAIN revindex.postings :
          t # u /\ Len(revindex.postings[t]) = 2 /\ Len(revindex.postings[u]) = 1
                /\ t.a = u.a /\ t.b = u.b

====
